---- MODULE Spec2Model ----
(***************************************************************************)
(* A model of the `simple` lambda-calculus interpreter: the lexer          *)
(* (lexer.rs), the recursive-descent parser (parser.rs), the Display of    *)
(* terms (term.rs) and the substitution-based evaluator (interpreter.rs).  *)
(*                                                                         *)
(* Source text is a sequence of characters, a character is a one-element   *)
(* string, except the two non-ASCII glyphs that occur in the source, which *)
(* are named by their code points: "U+03BB" is the Greek small letter      *)
(* lambda that term.rs prints, "U+4F4D" is the character that lexer.rs     *)
(* matches beside the backslash.  An identifier is a sequence of           *)
(* characters (a slice of the input).                                      *)
(***************************************************************************)
EXTENDS Integers, Sequences, FiniteSets, TLC

\* ------------------------------------------------------------------ bounds
MaxSize == 7        \* nodes of the enumerated terms to evaluate and print
MaxSubstSize == 5   \* nodes of the enumerated terms to substitute in
MaxValueSize == 2   \* nodes of the enumerated substituted values
MaxToks == 5        \* length of the enumerated token sequences
MaxInner == 3       \* tokens between the parentheses of an enumerated atom
MaxAtoms == 3       \* atoms of an enumerated application chain
MaxChars == 3       \* length of the enumerated source texts
Fuel == 40          \* depth of the evaluator's recursion the model follows

\* ------------------------------------------------------------ characters
GreekLambda == "U+03BB"
LexerGlyph == "U+4F4D"
Backslash == "\\"
NoChar == "EOF"

Lowercase == {"x", "y", "z", "a", "b", "p", "q"}
Uppercase == {"A"}
Digits == {"1"}

IsWhitespace(c) == c \in {" "}
IsAsciiLowercase(c) == c \in Lowercase
IsAsciiAlphanumeric(c) == c \in Lowercase \cup Uppercase \cup Digits

\* ---------------------------------------------------------------- token.rs
LParen == [tag |-> "LParen", name |-> <<>>]
RParen == [tag |-> "RParen", name |-> <<>>]
Lambda == [tag |-> "Lambda", name |-> <<>>]
Dot == [tag |-> "Dot", name |-> <<>>]
Binding(n) == [tag |-> "Binding", name |-> n]
\* Option::None of a token
None == [tag |-> "None", name |-> <<>>]

\* ----------------------------------------------------------------- term.rs
Variable(n) == [tag |-> "Variable", name |-> n]
Abstraction(p, b) == [tag |-> "Abstraction", param |-> p, body |-> b]
Application(l, r) == [tag |-> "Application", lhs |-> l, rhs |-> r]

RECURSIVE Display(_)
Display(t) ==
  CASE t.tag = "Variable" -> t.name
    [] t.tag = "Abstraction" ->
         <<GreekLambda>> \o t.param \o <<".", " ">> \o Display(t.body)
    [] t.tag = "Application" ->
         LET lhs_str == IF t.lhs.tag \in {"Abstraction", "Application"}
                        THEN <<"(">> \o Display(t.lhs) \o <<")">>
                        ELSE Display(t.lhs)
             rhs_str == IF t.rhs.tag \in {"Abstraction", "Application"}
                        THEN <<"(">> \o Display(t.rhs) \o <<")">>
                        ELSE Display(t.rhs)
         IN lhs_str \o <<" ">> \o rhs_str

\* ---------------------------------------------------------------- lexer.rs
\* A token iterator: the Lexer over a source text, or (the parser is generic
\* over Iterator<Item = Token>) an iterator over a ready sequence of tokens.
LexerNew(input) == [kind |-> "Lexer", input |-> input, pos |-> 1]
TokensIter(toks) == [kind |-> "Tokens", input |-> toks, pos |-> 1]

PeekChar(lx) == IF lx.pos <= Len(lx.input) THEN lx.input[lx.pos] ELSE NoChar

RECURSIVE SkipWhitespace(_)
SkipWhitespace(lx) ==
  IF PeekChar(lx) # NoChar /\ IsWhitespace(PeekChar(lx))
  THEN SkipWhitespace([lx EXCEPT !.pos = @ + 1])
  ELSE lx

RECURSIVE BindingEnd(_)
\* the while loop of read_binding: the iterator after the alphanumeric run
BindingEnd(lx) ==
  IF PeekChar(lx) # NoChar /\ IsAsciiAlphanumeric(PeekChar(lx))
  THEN BindingEnd([lx EXCEPT !.pos = @ + 1])
  ELSE lx

\* the Binding read_binding returns, `done` being the iterator after its run
BindingToken(lx, done) ==
  [tok |-> Binding(SubSeq(lx.input, lx.pos, done.pos - 1)),
   it |-> done, panic |-> FALSE]

ReadBinding(lx) == BindingToken(lx, BindingEnd(lx))

\* self.chars.next()
Advance(lx) == [lx EXCEPT !.pos = @ + 1]

\* the match with the arm of a Binding guarded by is_ascii_alphanumeric
MatchCharAlphanumeric(lx, c) ==
  CASE c = "(" -> [tok |-> LParen, it |-> Advance(lx), panic |-> FALSE]
    [] c = ")" -> [tok |-> RParen, it |-> Advance(lx), panic |-> FALSE]
    [] c \in {LexerGlyph, Backslash} ->
         [tok |-> Lambda, it |-> Advance(lx), panic |-> FALSE]
    [] c = "." -> [tok |-> Dot, it |-> Advance(lx), panic |-> FALSE]
    [] c # NoChar /\ IsAsciiAlphanumeric(c) -> ReadBinding(lx)
    [] c = NoChar -> [tok |-> None, it |-> lx, panic |-> FALSE]
    [] OTHER -> [tok |-> None, it |-> lx, panic |-> TRUE]

\* the match of next_token on the character c that lx peeks at
MatchChar(lx, c) ==
  CASE c = "(" -> [tok |-> LParen, it |-> Advance(lx), panic |-> FALSE]
    [] c = ")" -> [tok |-> RParen, it |-> Advance(lx), panic |-> FALSE]
    [] c \in {LexerGlyph, Backslash} ->
         [tok |-> Lambda, it |-> Advance(lx), panic |-> FALSE]
    [] c = "." -> [tok |-> Dot, it |-> Advance(lx), panic |-> FALSE]
    [] c # NoChar /\ IsAsciiLowercase(c) -> ReadBinding(lx)
    [] c = NoChar -> [tok |-> None, it |-> lx, panic |-> FALSE]
    [] OTHER -> [tok |-> None, it |-> lx, panic |-> TRUE]

\* the match of next_token once whitespace is skipped
MatchPeek(lx) == MatchChar(lx, PeekChar(lx))

\* One call of next(): the token (or None), the iterator after it, and
\* whether the call panicked ("Unexpected character").
NextToken(lexer) == MatchPeek(SkipWhitespace(lexer))

IterNext(it) ==
  IF it.kind = "Lexer" THEN NextToken(it)
  ELSE IF it.pos <= Len(it.input)
       THEN [tok |-> it.input[it.pos], it |-> Advance(it), panic |-> FALSE]
       ELSE [tok |-> None, it |-> it, panic |-> FALSE]

\* --------------------------------------------------------------- parser.rs
UnexpectedEof == [tag |-> "UnexpectedEof", tok |-> None]
UnexpectedToken(tok) == [tag |-> "UnexpectedToken", tok |-> tok]
Unit == <<>>

\* What a parsing function returns, with the parser it leaves behind: Ok(val),
\* Err(val), or a panic of the lexer unwinding through it.
Ok(val, p) == [kind |-> "Ok", val |-> val, p |-> p]
Err(e, p) == [kind |-> "Err", val |-> e, p |-> p]
Panicked(p) == [kind |-> "Panic", val |-> Unit, p |-> p]

\* the `?` operator: r's error (or panic) returns at once, its Ok goes on
Try(r, Continue(_)) == IF r.kind # "Ok" THEN r ELSE Continue(r)

\* the parser whose lookahead is what the iterator's next() gave
ParserWith(n) ==
  [tokens |-> n.it, current_token |-> n.tok, panicked |-> n.panic]

ParserNew(tokens) == ParserWith(IterNext(tokens))

Peek(p) == p.current_token

ParserNext(p) ==
  [tok |-> p.current_token, p |-> ParserWith(IterNext(p.tokens))]

\* ok_or(UnexpectedEof) on what next() returned
OkOrEof(n) ==
  IF n.p.panicked THEN Panicked(n.p)
  ELSE IF n.tok = None THEN Err(UnexpectedEof, n.p)
  ELSE Ok(n.tok, n.p)

NextEof(p) == OkOrEof(ParserNext(p))

Eat(p, expected) ==
  Try(NextEof(p), LAMBDA actual :
    IF actual.val = expected THEN Ok(Unit, actual.p)
    ELSE Err(UnexpectedToken(actual.val), actual.p))

EatBinding(p) ==
  Try(NextEof(p), LAMBDA n :
    IF n.val.tag = "Binding" THEN Ok(n.val.name, n.p)
    ELSE Err(UnexpectedToken(n.val), n.p))

\* eof that lets a leftover token pass
EofLenient(p) == Try(OkOrEof(ParserNext(p)), LAMBDA n : Ok(Unit, n.p))

\* the if let of eof on what next() returned
NoneOrUnexpected(n) ==
  IF n.p.panicked THEN Panicked(n.p)
  ELSE IF n.tok # None THEN Err(UnexpectedToken(n.tok), n.p)
  ELSE Ok(Unit, n.p)

Eof(p) == NoneOrUnexpected(ParserNext(p))

RECURSIVE ParseApplication(_), ParseApplicationLoop(_, _), ParseAtom(_),
          ParseAbstraction(_), ParseParenthesized(_)

ParseAbstraction(p) ==
  Try(Eat(p, Lambda), LAMBDA lam :
  Try(EatBinding(lam.p), LAMBDA param :
  Try(Eat(param.p, Dot), LAMBDA dot :
  Try(ParseApplication(dot.p), LAMBDA body :
    Ok(Abstraction(param.val, body.val), body.p)))))

ParseParenthesized(p) ==
  Try(Eat(p, LParen), LAMBDA open :
  Try(ParseApplication(open.p), LAMBDA term :
  Try(Eat(term.p, RParen), LAMBDA close :
    Ok(term.val, close.p))))

\* parse_atom without the arm for the end of the input
ParseAtomNoEof(p) ==
  CASE Peek(p).tag = "Binding" ->
         Try(EatBinding(p), LAMBDA n : Ok(Variable(n.val), n.p))
    [] Peek(p) = LParen -> ParseParenthesized(p)
    [] Peek(p) = Lambda -> ParseAbstraction(p)
    [] OTHER -> Err(UnexpectedToken(Peek(p)), p)

ParseAtom(p) ==
  CASE Peek(p).tag = "Binding" ->
         Try(EatBinding(p), LAMBDA n : Ok(Variable(n.val), n.p))
    [] Peek(p) = LParen -> ParseParenthesized(p)
    [] Peek(p) = Lambda -> ParseAbstraction(p)
    [] Peek(p) = None -> Err(UnexpectedEof, p)
    [] OTHER -> Err(UnexpectedToken(Peek(p)), p)

\* the loop with the operands of the new Application exchanged
ParseApplicationLoopSwapped(term, p) ==
  IF Peek(p).tag = "Binding" \/ Peek(p) = LParen
  THEN Try(ParseAtom(p), LAMBDA rhs :
         ParseApplicationLoop(Application(rhs.val, term), rhs.p))
  ELSE Ok(term, p)

\* the while loop of parse_application, `term` being what is folded so far
ParseApplicationLoop(term, p) ==
  IF Peek(p).tag = "Binding" \/ Peek(p) = LParen
  THEN Try(ParseAtom(p), LAMBDA rhs :
         ParseApplicationLoop(Application(term, rhs.val), rhs.p))
  ELSE Ok(term, p)

ParseApplication(p) ==
  Try(ParseAtom(p), LAMBDA term : ParseApplicationLoop(term.val, term.p))

Parse(p) ==
  Try(ParseApplication(p), LAMBDA expr :
  Try(Eof(expr.p), LAMBDA end : Ok(expr.val, end.p)))

\* what parse returns on the parser Parser::new made, as every caller calls
\* it; a panic inside Parser::new leaves no parser to call parse on
ParseNew(p) == IF p.panicked THEN Panicked(p) ELSE Parse(p)

NewAndParse(tokens) == ParseNew(ParserNew(tokens))

\* ---------------------------------------------------------- interpreter.rs
\* The evaluator does not return on a term without a normal form (unbounded
\* recursion); the model follows the recursion Fuel calls deep and reports
\* Diverged beyond that.
Diverged == [tag |-> "Diverged"]

RECURSIVE SubstituteNoShadow(_, _, _)
\* substitute without the shadowing guard on the parameter
SubstituteNoShadow(term, var, value) ==
  CASE term.tag = "Variable" /\ term.name = var -> value
    [] term.tag = "Variable" /\ term.name # var -> term
    [] term.tag = "Abstraction" ->
         Abstraction(term.param, SubstituteNoShadow(term.body, var, value))
    [] term.tag = "Application" ->
         Application(SubstituteNoShadow(term.lhs, var, value),
                     SubstituteNoShadow(term.rhs, var, value))
    [] OTHER -> term

RECURSIVE SubstituteStopAtBinder(_, _, _)
\* substitute that never enters an abstraction
SubstituteStopAtBinder(term, var, value) ==
  CASE term.tag = "Variable" /\ term.name = var -> value
    [] term.tag = "Variable" /\ term.name # var -> term
    [] term.tag = "Application" ->
         Application(SubstituteStopAtBinder(term.lhs, var, value),
                     SubstituteStopAtBinder(term.rhs, var, value))
    [] OTHER -> term

RECURSIVE Substitute(_, _, _)
Substitute(term, var, value) ==
  CASE term.tag = "Variable" /\ term.name = var -> value
    [] term.tag = "Variable" /\ term.name # var -> term
    [] term.tag = "Abstraction" /\ term.param # var ->
         Abstraction(term.param, Substitute(term.body, var, value))
    [] term.tag = "Application" ->
         Application(Substitute(term.lhs, var, value),
                     Substitute(term.rhs, var, value))
    [] OTHER -> term

RECURSIVE EvaluateTerm(_, _), Reduce(_, _, _)

\* the application arm of evaluate_term once both sides are evaluated,
\* returning the substituted body without evaluating it
ReduceOnce(lhs_eval, rhs_eval, fuel) ==
  IF lhs_eval = Diverged \/ rhs_eval = Diverged THEN Diverged
  ELSE IF lhs_eval.tag = "Abstraction"
  THEN Substitute(lhs_eval.body, lhs_eval.param, rhs_eval)
  ELSE Application(lhs_eval, rhs_eval)

\* the application arm of evaluate_term once both sides are evaluated, never
\* applying the abstraction
ReduceKeepRedex(lhs_eval, rhs_eval, fuel) ==
  IF lhs_eval = Diverged \/ rhs_eval = Diverged THEN Diverged
  ELSE Application(lhs_eval, rhs_eval)

\* the application arm of evaluate_term with the right side passed
\* unevaluated: only the left side has to return
ReduceLazy(lhs_eval, rhs_eval, fuel) ==
  IF lhs_eval = Diverged THEN Diverged
  ELSE IF lhs_eval.tag = "Abstraction"
  THEN EvaluateTerm(Substitute(lhs_eval.body, lhs_eval.param, rhs_eval),
                    fuel - 1)
  ELSE Application(lhs_eval, rhs_eval)

\* the application arm of evaluate_term once both sides are evaluated (a
\* side that does not return keeps the call from returning)
Reduce(lhs_eval, rhs_eval, fuel) ==
  IF lhs_eval = Diverged \/ rhs_eval = Diverged THEN Diverged
  ELSE IF lhs_eval.tag = "Abstraction"
  THEN EvaluateTerm(Substitute(lhs_eval.body, lhs_eval.param, rhs_eval),
                    fuel - 1)
  ELSE Application(lhs_eval, rhs_eval)

EvaluateTerm(term, fuel) ==
  IF fuel = 0 THEN Diverged
  ELSE IF term.tag = "Application"
  THEN Reduce(EvaluateTerm(term.lhs, fuel - 1),
              EvaluateTerm(term.rhs, fuel - 1), fuel)
  ELSE term

Evaluate(term) == EvaluateTerm(term, Fuel)

\* ------------------------------------------------------------------ inputs
Names == {<<"x">>, <<"y">>}
\* identifiers of more than one character, for the printed form
PrintNames == {<<"x">>, <<"y", "A", "1">>}
\* the names the projection test applies its function to
ArgNames == {<<"a">>, <<"b">>, <<"x">>, <<"y">>, <<"z">>}

RECURSIVE TermsOfSize(_, _)
\* the terms of exactly n nodes over the given names
TermsOfSize(n, names) ==
  IF n = 1 THEN {Variable(v) : v \in names}
  ELSE {Abstraction(v, b) : v \in names, b \in TermsOfSize(n - 1, names)}
       \cup UNION {{Application(l, r) : l \in TermsOfSize(i, names),
                                         r \in TermsOfSize(n - 1 - i, names)}
                   : i \in 1..(n - 2)}

Terms(n, names) == UNION {TermsOfSize(k, names) : k \in 1..n}

Var(c) == Variable(<<c>>)
Lam(c, b) == Abstraction(<<c>>, b)
App(l, r) == Application(l, r)

\* the terms of the interpreter's tests (interpreter.rs, mod tests)
TRUE_TERM == Lam("x", Lam("y", Var("x")))
FALSE_TERM == Lam("x", Lam("y", Var("y")))
AND_TERM == Lam("p", Lam("q", App(App(Var("p"), Var("q")), Var("p"))))
OR_TERM == Lam("p", Lam("q", App(App(Var("p"), Var("p")), Var("q"))))
NOT_TERM == Lam("p", App(App(Var("p"), FALSE_TERM), TRUE_TERM))
Church(b) == IF b THEN TRUE_TERM ELSE FALSE_TERM

AndOf(b1, b2) == App(App(AND_TERM, Church(b1)), Church(b2))
OrOf(b1, b2) == App(App(OR_TERM, Church(b1)), Church(b2))
NotOf(b1) == App(NOT_TERM, Church(b1))
\* ((\x. \y. x) a) b
FirstOf(a, b) == App(App(TRUE_TERM, Variable(a)), Variable(b))

\* a term without a normal form, alone and as an unused argument
SelfApply == Lam("x", App(Var("x"), Var("x")))
Omega == App(SelfApply, SelfApply)
DiscardOmega == App(Lam("x", Var("y")), Omega)
OmegaApplied == App(Omega, Var("y"))
\* (\x. \y. x y) (\x. x): its reduct has a redex under the binder y
ApplyUnderBinder == App(Lam("x", Lam("y", App(Var("x"), Var("y")))),
                        Lam("x", Var("x")))

EvalInputs ==
  Terms(MaxSize, Names)
  \cup {AndOf(b1, b2) : b1 \in BOOLEAN, b2 \in BOOLEAN}
  \cup {OrOf(b1, b2) : b1 \in BOOLEAN, b2 \in BOOLEAN}
  \cup {NotOf(b1) : b1 \in BOOLEAN}
  \cup {FirstOf(a, b) : a \in ArgNames, b \in ArgNames}
  \cup {Omega, DiscardOmega, OmegaApplied, ApplyUnderBinder}

TokenAlphabet == {LParen, RParen, Lambda, Dot} \cup {Binding(n) : n \in Names}
InnerAlphabet == {LParen, RParen, Lambda, Dot, Binding(<<"x">>)}

\* the characters of the enumerated source texts: one of each kind the lexer
\* tells apart, and '#' for the rest
TextAlphabet ==
  {"(", ")", ".", Backslash, LexerGlyph, GreekLambda, " ", "x", "A", "1", "#"}

SeqsUpTo(n, alphabet) == UNION {[1..k -> alphabet] : k \in 0..n}

ParseTokenSeq(toks) == NewAndParse(TokensIter(toks))

RECURSIVE Collect(_)
\* the tokens the Lexer yields when it is iterated to the end, and whether
\* it panicked on the way
Collected(tok, rest) == [toks |-> <<tok>> \o rest.toks, panic |-> rest.panic]
CollectFrom(n) ==
  IF n.panic THEN [toks |-> <<>>, panic |-> TRUE]
  ELSE IF n.tok = None THEN [toks |-> <<>>, panic |-> FALSE]
  ELSE Collected(n.tok, Collect(n.it))
Collect(lexer) == CollectFrom(NextToken(lexer))

\* An atom of the grammar, as tokens: a Binding, or a term in parentheses.
ParenAtom(inner) == <<LParen>> \o inner \o <<RParen>>
\* ( \x . x )
IdentityAtom == ParenAtom(<<Lambda, Binding(<<"x">>), Dot, Binding(<<"x">>)>>)
AtomSet ==
  {<<Binding(n)>> : n \in Names}
  \cup {IdentityAtom}
  \cup {ParenAtom(inner) : inner \in
          {s \in SeqsUpTo(MaxInner, InnerAlphabet) :
             ParseTokenSeq(s).kind = "Ok"}}

RECURSIVE Flatten(_)
Flatten(seqs) ==
  IF seqs = <<>> THEN <<>> ELSE Head(seqs) \o Flatten(Tail(seqs))

\* the spelling of a token in source text, after a separating blank
Spell(tok) ==
  CASE tok = LParen -> <<" ", "(">>
    [] tok = RParen -> <<" ", ")">>
    [] tok = Lambda -> <<" ", Backslash>>
    [] tok = Dot -> <<" ", ".">>
    [] OTHER -> <<" ">> \o tok.name

RECURSIVE SpellAll(_)
SpellAll(toks) ==
  IF toks = <<>> THEN <<>> ELSE Spell(Head(toks)) \o SpellAll(Tail(toks))

\* ------------------------------------------------------------------- state
VARIABLES
  pc,       \* which call was made last
  term,     \* the Term handed to the interpreter or to Display
  var,      \* substitute's variable
  value,    \* substitute's value
  result,   \* the Term the interpreter returned, or Diverged
  source,   \* the tokens or the text handed to the parser
  atoms,    \* the atoms the source was built from
  outcome   \* what parse returned, with the parser it left

vars == <<pc, term, var, value, result, source, atoms, outcome>>

NoTerm == [tag |-> "NoTerm"]
NoName == <<>>
NoOutcome == [kind |-> "None", val |-> Unit, p |-> Unit]

Init ==
  /\ pc = "idle"
  /\ term = NoTerm
  /\ var = NoName
  /\ value = NoTerm
  /\ result = NoTerm
  /\ source = <<>>
  /\ atoms = <<>>
  /\ outcome = NoOutcome

AtomChains == UNION {[1..n -> AtomSet] : n \in 1..MaxAtoms}

\* interpreter.evaluate(&t)
EvaluateCall ==
  /\ pc = "idle"
  /\ \E t \in EvalInputs :
       /\ term' = t
       /\ result' = Evaluate(t)
  /\ pc' = "evaluated"
  /\ UNCHANGED <<var, value, source, atoms, outcome>>

\* interpreter.evaluate(&result), on the term the last call returned
EvaluateAgain ==
  /\ pc = "evaluated"
  /\ result # Diverged
  /\ pc' = "reevaluated"
  /\ term' = result
  /\ result' = Evaluate(result)
  /\ UNCHANGED <<var, value, source, atoms, outcome>>

\* interpreter.substitute(&t, v, &val)
SubstituteCall ==
  /\ pc = "idle"
  /\ \E t \in Terms(MaxSubstSize, Names), v \in Names,
        val \in Terms(MaxValueSize, Names) :
       /\ term' = t
       /\ var' = v
       /\ value' = val
       /\ result' = Substitute(t, v, val)
  /\ pc' = "substituted"
  /\ UNCHANGED <<source, atoms, outcome>>

\* format!("{}", t)
DisplayCall ==
  /\ pc = "idle"
  /\ \E t \in Terms(MaxSize, PrintNames) :
       /\ term' = t
       /\ source' = Display(t)
  /\ pc' = "printed"
  /\ UNCHANGED <<var, value, result, atoms, outcome>>

\* Parser::new(Lexer::new(&printed)).parse()
ParsePrinted ==
  /\ pc = "printed"
  /\ pc' = "reparsed"
  /\ outcome' = NewAndParse(LexerNew(source))
  /\ UNCHANGED <<term, var, value, result, source, atoms>>

\* Parser::new(toks.into_iter()).parse()
ParseTokens ==
  /\ pc = "idle"
  /\ \E toks \in SeqsUpTo(MaxToks, TokenAlphabet) :
       /\ source' = toks
       /\ outcome' = ParseTokenSeq(toks)
  /\ pc' = "parsed"
  /\ UNCHANGED <<term, var, value, result, atoms>>

\* parse of the first k tokens of a sequence that parses
ParsePrefix ==
  /\ pc = "idle"
  /\ \E full \in SeqsUpTo(MaxToks, TokenAlphabet) :
       /\ ParseTokenSeq(full).kind = "Ok"
       /\ \E k \in 0..(Len(full) - 1) :
            /\ source' = SubSeq(full, 1, k)
            /\ outcome' = ParseTokenSeq(SubSeq(full, 1, k))
  /\ pc' = "prefix_parsed"
  /\ UNCHANGED <<term, var, value, result, atoms>>

\* parse of a chain of atoms
ParseAtoms ==
  /\ pc = "idle"
  /\ \E as \in AtomChains :
       /\ atoms' = as
       /\ source' = Flatten(as)
       /\ outcome' = ParseTokenSeq(Flatten(as))
  /\ pc' = "atoms_parsed"
  /\ UNCHANGED <<term, var, value, result>>

\* Parser::new(Lexer::new(text)).parse() of the text: introducer, parameter,
\* '.', and a chain of atoms
ParseLambdaText ==
  /\ pc = "idle"
  /\ \E intro \in {GreekLambda, LexerGlyph, Backslash}, param \in Names,
        as \in AtomChains :
       LET text == <<intro>> \o param \o <<".">> \o SpellAll(Flatten(as))
       IN /\ atoms' = as
          /\ var' = param
          /\ source' = text
          /\ outcome' = NewAndParse(LexerNew(text))
  /\ pc' = "lambda_parsed"
  /\ UNCHANGED <<term, value, result>>

\* what one call of the Lexer's next() gave: a token or None, or a panic
Returning(n) ==
  [kind |-> IF n.panic THEN "Panic" ELSE "Ok", val |-> n.tok, p |-> n.it]

\* Lexer::new(text)
LexerNewCall ==
  /\ pc = "idle"
  /\ \E text \in SeqsUpTo(MaxChars, TextAlphabet) :
       /\ source' = text
       /\ outcome' = [kind |-> "New", val |-> None, p |-> LexerNew(text)]
  /\ pc' = "lexing"
  /\ UNCHANGED <<term, var, value, result, atoms>>

\* lexer.next(), until it returned None or panicked
LexerNextCall ==
  /\ pc = "lexing"
  /\ outcome.kind \in {"New", "Ok"}
  /\ ~(outcome.kind = "Ok" /\ outcome.val = None)
  /\ outcome' = Returning(NextToken(outcome.p))
  /\ UNCHANGED <<pc, term, var, value, result, source, atoms>>

\* Parser::new(Lexer::new(text)).parse()
ParseText ==
  /\ pc = "idle"
  /\ \E text \in SeqsUpTo(MaxChars, TextAlphabet) :
       /\ source' = text
       /\ outcome' = NewAndParse(LexerNew(text))
  /\ pc' = "text_parsed"
  /\ UNCHANGED <<term, var, value, result, atoms>>

Next ==
  \/ EvaluateCall
  \/ EvaluateAgain
  \/ SubstituteCall
  \/ DisplayCall
  \/ ParsePrinted
  \/ ParseTokens
  \/ ParsePrefix
  \/ ParseAtoms
  \/ ParseLambdaText
  \/ LexerNewCall
  \/ LexerNextCall
  \/ ParseText

Spec == Init /\ [][Next]_vars

TypeOK ==
  /\ pc \in {"idle", "evaluated", "reevaluated", "substituted", "printed",
             "reparsed", "parsed", "prefix_parsed", "atoms_parsed",
             "lambda_parsed", "lexing", "text_parsed"}
  /\ outcome.kind \in {"None", "New", "Ok", "Err", "Panic"}

\* ------------------------------------------------------------ properties
RECURSIVE HasRedex(_)
\* some Application node of t, wherever it is, has an Abstraction on its left
HasRedex(t) ==
  CASE t.tag = "Variable" -> FALSE
    [] t.tag = "Abstraction" -> HasRedex(t.body)
    [] t.tag = "Application" ->
         t.lhs.tag = "Abstraction" \/ HasRedex(t.lhs) \/ HasRedex(t.rhs)

RECURSIVE HasOuterRedex(_)
\* some Application node of t that is not inside an abstraction body has an
\* Abstraction on its left
HasOuterRedex(t) ==
  CASE t.tag = "Variable" -> FALSE
    [] t.tag = "Abstraction" -> FALSE
    [] t.tag = "Application" ->
         t.lhs.tag = "Abstraction" \/ HasOuterRedex(t.lhs)
           \/ HasOuterRedex(t.rhs)

Returned == pc \in {"evaluated", "reevaluated"} /\ result # Diverged

\* C1: evaluating the term that evaluate returned returns it again,
\* structurally equal (the second call returns, and changes nothing).
C1_Idempotence == pc = "reevaluated" => result = term

\* the second evaluation walked a stuck application holding an abstraction
C1_Witness ==
  /\ pc = "reevaluated"
  /\ result = term
  /\ result.tag = "Application"
  /\ result.rhs.tag = "Abstraction"

\* C3 as stated: the term evaluate returns has no redex anywhere, abstraction
\* bodies included.
C3_NoRedexAnywhere == Returned => ~HasRedex(result)

\* C3 amended: the term evaluate returns has no redex outside abstraction
\* bodies (the evaluator returns an Abstraction as it is, body unreduced).
C3_NoRedexOutsideAbstractions == Returned => ~HasOuterRedex(result)

\* a reduction took place and left a redex under a binder
C3_Witness ==
  /\ pc = "evaluated"
  /\ term = ApplyUnderBinder
  /\ result = Lam("y", App(Lam("x", Var("x")), Var("y")))
  /\ ~HasOuterRedex(result)

\* C4: substitute on a Variable gives the value for the substituted name and
\* the Variable otherwise; on an Abstraction it gives the Abstraction
\* unchanged when the parameter is the substituted name, and otherwise the
\* same parameter over the substituted body; on an Application it
\* substitutes in both sides.
C4_SubstituteCases ==
  pc = "substituted" =>
    CASE term.tag = "Variable" ->
           result = IF term.name = var THEN value ELSE term
      [] term.tag = "Abstraction" ->
           IF term.param = var
           THEN result = term
           ELSE /\ result.tag = "Abstraction"
                /\ result.param = term.param
                /\ result.body = Substitute(term.body, var, value)
      [] term.tag = "Application" ->
           /\ result.tag = "Application"
           /\ result.lhs = Substitute(term.lhs, var, value)
           /\ result.rhs = Substitute(term.rhs, var, value)

\* a shadowing abstraction whose body mentions the substituted name
C4_Witness ==
  /\ pc = "substituted"
  /\ term = Lam("x", App(Var("x"), Var("y")))
  /\ var = <<"x">>
  /\ result = term

\* C5 as stated: for any names a and b, ((\x. \y. x) a) b evaluates to
\* Variable(a).
C5_FirstProjection ==
  pc = "evaluated" =>
    \A a \in ArgNames, b \in ArgNames :
      term = FirstOf(a, b) => result = Variable(a)

\* C6: AND, OR and NOT applied to Church booleans evaluate to the Church
\* encoding of the boolean result.
C6_ChurchBooleans ==
  pc = "evaluated" =>
    \A b1 \in BOOLEAN, b2 \in BOOLEAN :
      /\ term = AndOf(b1, b2) => result = Church(b1 /\ b2)
      /\ term = OrOf(b1, b2) => result = Church(b1 \/ b2)
      /\ term = NotOf(b1) => result = Church(~b1)

\* AND TRUE FALSE was evaluated, to FALSE
C6_Witness ==
  /\ pc = "evaluated"
  /\ term = AndOf(TRUE, FALSE)
  /\ result = FALSE_TERM

\* a valid Binding identifier: a lowercase letter, then alphanumerics
IsBindingName(n) ==
  /\ Len(n) >= 1
  /\ IsAsciiLowercase(n[1])
  /\ \A i \in 1..Len(n) : IsAsciiAlphanumeric(n[i])

RECURSIVE NamesAreBindings(_)
NamesAreBindings(t) ==
  CASE t.tag = "Variable" -> IsBindingName(t.name)
    [] t.tag = "Abstraction" ->
         IsBindingName(t.param) /\ NamesAreBindings(t.body)
    [] t.tag = "Application" ->
         NamesAreBindings(t.lhs) /\ NamesAreBindings(t.rhs)

\* C2 as stated: lexing and parsing the printed form of a normal-form Term
\* with valid identifiers succeeds and yields the same Term.
C2_RoundTrip ==
  (pc = "reparsed" /\ ~HasRedex(term) /\ NamesAreBindings(term)) =>
    (outcome.kind = "Ok" /\ outcome.val = term)

\* the Term of an atom: the Variable of its Binding, or the parse of what is
\* between its parentheses
AtomTerm(atom) ==
  IF Len(atom) = 1 THEN Variable(atom[1].name)
  ELSE ParseTokenSeq(SubSeq(atom, 2, Len(atom) - 1)).val

RECURSIVE LeftNested(_)
\* Application(...Application(Application(t1, t2), t3)..., tn)
LeftNested(ts) ==
  IF Len(ts) = 1 THEN ts[1]
  ELSE Application(LeftNested(SubSeq(ts, 1, Len(ts) - 1)), ts[Len(ts)])

AtomTerms == [i \in 1..Len(atoms) |-> AtomTerm(atoms[i])]

\* C7: a sequence of n >= 2 atoms and nothing else parses to the left-nested
\* Application of the atoms' Terms.
C7_LeftAssociative ==
  (pc = "atoms_parsed" /\ Len(atoms) >= 2) =>
    (outcome.kind = "Ok" /\ outcome.val = LeftNested(AtomTerms))

\* three atoms, the middle one in parentheses, were folded to the left
C7_Witness ==
  /\ pc = "atoms_parsed"
  /\ atoms = << <<Binding(<<"x">>)>>,
                <<LParen, Binding(<<"x">>), Binding(<<"x">>), RParen>>,
                IdentityAtom >>
  /\ outcome.kind = "Ok"
  /\ outcome.val = App(App(Var("x"), App(Var("x"), Var("x"))),
                       Lam("x", Var("x")))

\* C8 as stated: the text made of a lambda introducer (the lambda glyph or a
\* backslash), a parameter, a '.' and a chain of atoms parses to the
\* Abstraction of the parameter over the whole chain.
C8_GreedyBody ==
  (pc = "lambda_parsed" /\ source[1] \in {GreekLambda, Backslash}) =>
    (outcome.kind = "Ok"
       /\ outcome.val = Abstraction(var, LeftNested(AtomTerms)))

NotContinuing(tok) == tok.tag # "Binding" /\ tok # LParen

\* C9: parse returns Ok only when the token stream is used up, and when a
\* complete application-level term is followed by a leftover token, it
\* returns UnexpectedToken of that first leftover token.
C9_TrailingToken ==
  pc = "parsed" =>
    /\ outcome.kind = "Ok" =>
         /\ outcome.p.current_token = None
         /\ outcome.p.tokens.pos = Len(source) + 1
    /\ \A k \in 1..Len(source) :
         (ParseTokenSeq(SubSeq(source, 1, k - 1)).kind = "Ok"
            /\ NotContinuing(source[k])) =>
           (outcome.kind = "Err"
              /\ outcome.val = UnexpectedToken(source[k]))

\* "x y )" was parsed
C9_Witness ==
  /\ pc = "parsed"
  /\ source = <<Binding(<<"x">>), Binding(<<"y">>), RParen>>
  /\ outcome.kind = "Err"
  /\ outcome.val = UnexpectedToken(RParen)

Count(toks, tok) == Cardinality({i \in 1..Len(toks) : toks[i] = tok})

\* the tokens end where the grammar still requires one: nothing yet, after
\* Lambda, after the parameter, after Dot, or with a parenthesis open
RequiresToken(toks) ==
  \/ toks = <<>>
  \/ toks # <<>> /\ toks[Len(toks)] \in {Lambda, Dot}
  \/ Len(toks) >= 2 /\ toks[Len(toks)].tag = "Binding"
       /\ toks[Len(toks) - 1] = Lambda
  \/ Count(toks, LParen) > Count(toks, RParen)

\* C10: when the token stream ends where the grammar still requires a token,
\* parse returns UnexpectedEof; a stream that ends before any unexpected
\* token never gives UnexpectedToken.
C10_UnexpectedEof ==
  pc = "prefix_parsed" =>
    /\ RequiresToken(source) =>
         (outcome.kind = "Err" /\ outcome.val = UnexpectedEof)
    /\ outcome.kind = "Err" => outcome.val = UnexpectedEof

\* the tokens of "\x." were parsed
C10_Witness ==
  /\ pc = "prefix_parsed"
  /\ source = <<Lambda, Binding(<<"x">>), Dot>>
  /\ outcome.kind = "Err"
  /\ outcome.val = UnexpectedEof

\* where the first character at or after pos that is not whitespace is, or
\* one past the end of the input when there is none
FirstNonBlank(input, pos) ==
  IF \E i \in pos..Len(input) : ~IsWhitespace(input[i])
  THEN CHOOSE i \in pos..Len(input) :
         /\ ~IsWhitespace(input[i])
         /\ \A j \in pos..(i - 1) : IsWhitespace(input[j])
  ELSE Len(input) + 1

\* a character that starts no token: not a parenthesis, a dot, the glyph the
\* lexer matches as lambda, a backslash or an ASCII lowercase letter
StartsNoToken(c) ==
  /\ c \notin {"(", ")", ".", LexerGlyph, Backslash}
  /\ ~IsAsciiLowercase(c)

\* the lexer is about to be asked for a token where a character that starts
\* no token comes next
AtBadCharacter ==
  /\ pc = "lexing"
  /\ FirstNonBlank(source, outcome.p.pos) <= Len(source)
  /\ StartsNoToken(source[FirstNonBlank(source, outcome.p.pos)])

C12_EagerOperands ==
  pc = "evaluated" =>
    /\ (term.tag = "Application" /\ result # Diverged) =>
         /\ Evaluate(term.lhs) # Diverged
         /\ Evaluate(term.rhs) # Diverged
    /\ term = Omega =>
         /\ Evaluate(term.lhs) = SelfApply
         /\ Evaluate(term.rhs) = SelfApply
         /\ Substitute(SelfApply.body, SelfApply.param, SelfApply) = Omega
         /\ \A f \in 0..Fuel : EvaluateTerm(term, f) = Diverged
    /\ term \in {DiscardOmega, OmegaApplied} => result = Diverged

\* the abstraction that discards its argument was applied to the term
\* without a normal form, and the call did not return
C12_Witness ==
  /\ pc = "evaluated"
  /\ term = DiscardOmega
  /\ Evaluate(term.lhs) = Lam("x", Var("y"))
  /\ Evaluate(term.rhs) = Diverged
  /\ result = Diverged

\* what iterating the lexer of the first k characters of the source gives
PrefixTokens(k) == Collect(LexerNew(SubSeq(source, 1, k)))
\* the token the first k characters end with
PrefixLast(k) == PrefixTokens(k).toks[Len(PrefixTokens(k).toks)]

\* the first k characters of the source are lexically valid, end with a
\* whole token, and the parse of their tokens fails at that last token
FailsAtTokenEndingAt(k) ==
  /\ ~IsWhitespace(source[k])
  /\ k < Len(source) =>
       ~(IsAsciiAlphanumeric(source[k]) /\ IsAsciiAlphanumeric(source[k + 1]))
  /\ ~PrefixTokens(k).panic
  /\ PrefixTokens(k).toks # <<>>
  /\ ParseTokenSeq(PrefixTokens(k).toks).kind = "Err"
  /\ ParseTokenSeq(PrefixTokens(k).toks).val = UnexpectedToken(PrefixLast(k))

\* C13: when the parse fails at a lexically valid token, parse over the
\* lexer of the whole text returns the ParseError for that token whatever
\* characters follow it, and the lexer has not been advanced past the token.
C13_ErrorAtFailingToken ==
  pc = "text_parsed" =>
    \A k \in 1..Len(source) :
      FailsAtTokenEndingAt(k) =>
        /\ outcome.kind = "Err"
        /\ outcome.val = UnexpectedToken(PrefixLast(k))
        /\ outcome.p.tokens.pos <= k + 1

====
